---- MODULE Spec2Model ----
(***************************************************************************)
(* OrbisAI ingestion service: the per-document ingestion pipeline          *)
(* (IngestService.ingest_document), the content digest tracker             *)
(* (DocumentProcessor), the vector store client (QdrantVectorDB), the      *)
(* embedding retry wrapper (async_retry) and the query orchestrator        *)
(* (IngestService.query_docs).                                             *)
(*                                                                         *)
(* The vector store calls are modelled by the effect of the awaited call   *)
(* (qdrant upsert / search / scroll).  Redis, the vector store and the     *)
(* embedding model are collaborators that may fail on any call.            *)
(***************************************************************************)
EXTENDS Integers, Sequences, FiniteSets, TLC

\* ---------------------------------------------------------------- bounds
\* number of ingest_document runs (background tasks) in one behaviour
MaxRuns == 2

\* number of runs in flight at the same time (the worker threads running
\* background tasks)
MaxInFlight == 2

\* number of collaborator failures in one behaviour: failed embedding calls,
\* failed vector store calls and redis outages
MaxFaults == 1

\* EMBED_BATCH_SIZE (ingest_service.py:25), configured to 2 so that a
\* three-chunk document needs two batches
BATCH_SIZE == 2

Files == {"f1", "f2"}
Contents == {"cA", "cB"}

\* requests whose document has no text, or text the splitter raises on
EdgeContents == {"cE", "cK"}

NoDigest == <<"nil">>

\* ------------------------------------------------------- pure functions

\* hashlib.sha256(content_bytes).hexdigest(): injective on the model's
\* contents, never the empty string
sha256(c) == <<"sha256", c>>

\* splitter.split_text(text): a section text is the sequence of the
\* chunk-sized pieces the splitter cuts it into
split_text(text) == text

\* a text on which splitter.split_text raises holds this fragment
Unsplittable == <<"unsplittable">>

split_raises(text) == \E i \in 1..Len(text) : text[i] = "unsplittable"

\* a text that strips to the empty string: the splitter cuts no piece
Blank == <<>>

\* A document as the extractor meets it: whether the base64 text decodes,
\* the extension of the file name, whether the parser accepts the decoded
\* bytes (pdfplumber.open, markdown/BeautifulSoup), and the pages; a page
\* is readable or not (page.extract_text raises) and holds the texts of
\* its paragraphs.
Page(ok, paragraphs) == [ok |-> ok, paragraphs |-> paragraphs]

Doc(valid_base64, ext, parses, pages) ==
  [valid_base64 |-> valid_base64, ext |-> ext, parses |-> parses,
   pages |-> pages]

\* the documents behind the contents of the ingestion requests
Document(content) ==
  CASE content = "cA" ->
         Doc(TRUE, "txt", TRUE, <<Page(TRUE, << <<"a1", "a2", "a3">> >>)>>)
    [] content = "cB" ->
         Doc(TRUE, "txt", TRUE, <<Page(TRUE, << <<"b1">> >>)>>)
    [] content = "cE" ->
         \* a pdf whose only page holds no text
         Doc(TRUE, "pdf", TRUE, <<Page(TRUE, <<Blank>>)>>)
    [] content = "cK" ->
         \* markdown whose last paragraph the splitter raises on
         Doc(TRUE, "md", TRUE,
             <<Page(TRUE, << <<"k1">>, <<"k2">>, Unsplittable >>)>>)

\* [p.strip() for p in text.split('\n\n') if p.strip()]
non_blank(paragraphs) == SelectSeq(paragraphs, LAMBDA t : t # Blank)

\* lines 37-45: the pdf loop; an exception leaves the loop and keeps what
\* was appended to `pages`
RECURSIVE pdf_sections(_, _)
pdf_sections(pages, page_num) ==
  IF pages = <<>> THEN <<>>
  ELSE IF ~Head(pages).ok THEN <<>>
  ELSE LET paragraphs == non_blank(Head(pages).paragraphs)
       IN [para_num \in 1..Len(paragraphs) |->
             [page |-> page_num, paragraph |-> para_num,
              text |-> paragraphs[para_num]]]
          \o pdf_sections(Tail(pages), page_num + 1)

\* the paragraphs of all pages, and the pieces of all paragraphs
RECURSIVE all_paragraphs(_)
all_paragraphs(pages) ==
  IF pages = <<>> THEN <<>>
  ELSE Head(pages).paragraphs \o all_paragraphs(Tail(pages))

RECURSIVE all_text(_)
all_text(paragraphs) ==
  IF paragraphs = <<>> THEN <<>>
  ELSE Head(paragraphs) \o all_text(Tail(paragraphs))

\* lines 47-72: markdown and akn/xml; the whole text is parsed before the
\* loop, the elements are numbered before the empty ones are left out
markup_sections(pages) ==
  LET paragraphs == all_paragraphs(pages)
  IN SelectSeq([para_num \in 1..Len(paragraphs) |->
                  [page |-> 1, paragraph |-> para_num,
                   text |-> paragraphs[para_num]]],
               LAMBDA section : section.text # Blank)

\* an extractor that gives up the whole document when any step fails
extract_all_or_nothing(doc) ==
  IF ~doc.valid_base64 THEN <<>>
  ELSE IF doc.ext = "pdf"
  THEN IF doc.parses /\ \A k \in 1..Len(doc.pages) : doc.pages[k].ok
       THEN pdf_sections(doc.pages, 1) ELSE <<>>
  ELSE IF doc.ext \in {"md", "akn", "xml"}
  THEN IF doc.parses THEN markup_sections(doc.pages) ELSE <<>>
  ELSE <<[page |-> 1, paragraph |-> 1,
          text |-> all_text(all_paragraphs(doc.pages))]>>

\* DocumentProcessor.extract_text_and_metadata (lines 28-85): every
\* exception is caught, `pages` is returned as it stands
extract_sections(doc) ==
  IF ~doc.valid_base64 THEN <<>>
  ELSE IF doc.ext = "pdf"
  THEN IF doc.parses THEN pdf_sections(doc.pages, 1) ELSE <<>>
  ELSE IF doc.ext \in {"md", "akn", "xml"}
  THEN IF doc.parses THEN markup_sections(doc.pages) ELSE <<>>
  ELSE \* decode(errors='ignore') does not raise: one section, the text
       <<[page |-> 1, paragraph |-> 1,
          text |-> all_text(all_paragraphs(doc.pages))]>>

\* the `page["doc_name"] = request.filename` loop of ingest_document
with_doc_name(filename, pages) ==
  [k \in 1..Len(pages) |->
     [doc_name |-> filename, page |-> pages[k].page,
      paragraph |-> pages[k].paragraph, text |-> pages[k].text]]

\* DocumentProcessor.extract_text_and_metadata, followed by the
\* `page["doc_name"] = request.filename` loop of ingest_document
extract_text_and_metadata(filename, content) ==
  with_doc_name(filename, extract_sections(Document(content)))

\* a chunker that hands each chunk the metadata of the first section
RECURSIVE chunk_first_section_metadata(_)
chunk_first_section_metadata(pages) ==
  IF pages = <<>> \/ split_raises(Head(pages).text)
  THEN [chunks |-> <<>>, metadata |-> <<>>]
  ELSE LET rest == chunk_first_section_metadata(Tail(pages))
       IN [chunks |-> split_text(Head(pages).text) \o rest.chunks,
           metadata |->
             [k \in 1..Len(split_text(Head(pages).text)) |->
                [doc_name |-> Head(pages).doc_name,
                 page |-> Head(pages).page,
                 paragraph |-> Head(pages).paragraph]]
             \o [k \in 1..Len(rest.metadata) |->
                   [doc_name |-> Head(pages).doc_name,
                    page |-> Head(pages).page,
                    paragraph |-> Head(pages).paragraph]]]

\* DocumentProcessor.chunk_text_with_metadata: two parallel lists; an
\* exception of split_text leaves the loop and the lists are returned as
\* they stand
RECURSIVE chunk_text_with_metadata(_)
chunk_text_with_metadata(pages) ==
  IF pages = <<>>
  THEN [chunks |-> <<>>, metadata |-> <<>>]
  ELSE IF split_raises(Head(pages).text)
  THEN [chunks |-> <<>>, metadata |-> <<>>]
  ELSE LET page_info == Head(pages)
           split_chunks == split_text(page_info.text)
           rest == chunk_text_with_metadata(Tail(pages))
       IN [chunks |-> split_chunks \o rest.chunks,
           metadata |->
             [k \in 1..Len(split_chunks) |->
                [doc_name |-> page_info.doc_name,
                 page |-> page_info.page,
                 paragraph |-> page_info.paragraph]] \o rest.metadata]

\* the chunks of one ingestion request
RequestChunks ==
  [filename \in Files |->
     [content \in Contents \cup EdgeContents |->
        chunk_text_with_metadata(extract_text_and_metadata(filename, content))]]

ChunksOf(filename, content) == RequestChunks[filename][content]

\* IngestService.hierarchical_summarize: one summary text per content
hierarchical_summarize(content) ==
  CASE content = "cA" -> "sA"
    [] content = "cB" -> "sB"
    \* full_text is empty: the summarizer is still called on the empty
    \* combined summary, and what comes back (or "") is the summary
    [] content = "cE" -> "sE"
    [] content = "cK" -> "sK"

Min(a, b) == IF a < b THEN a ELSE b

\* ------------------------------------------------------------- state
VARIABLES
  store,      \* the qdrant collection: a set of points
  checksum,   \* redis doc_checksum:<filename>
  status,     \* redis ingestion_status:<filename>
  redisUp,    \* whether the redis server answers
  runs,       \* the ingest_document runs, by run number
  faults,     \* collaborator failures so far
  query,      \* the query_docs call in progress
  retry,      \* the batch_embed_texts call under async_retry in progress
  bulk,       \* the bulk ingestor process: ledgers, tasks, semaphore
  proc        \* one component called on its own: the DocumentProcessor on
              \* a document, the summarizer, a store adapter

ingestVars == <<store, checksum, status, redisUp, runs, faults>>

vars ==
  <<store, checksum, status, redisUp, runs, faults, query, retry, bulk, proc>>

Run == 1..MaxRuns

IdleRun ==
  [pc |-> "idle", filename |-> "f1", content |-> "cA", i |-> 0,
   exists |-> FALSE, outcome |-> "none", pred |-> {}, failedAt |-> -1]

NoResults ==
  [documents |-> <<>>, metadatas |-> <<>>, distances |-> <<>>, summaries |-> <<>>]

NoContext == [summary |-> <<>>, chunks |-> <<>>, token_count |-> 0]

IdleQuery ==
  [pc |-> "idle", question |-> "", searched |-> FALSE, results |-> NoResults,
   all_docs |-> <<>>, context |-> NoContext, qaCalls |-> 0, response |-> <<>>,
   failed |-> "none"]

\* no document handed to the DocumentProcessor
IdleProc == [pc |-> "idle"]

IdleRetry ==
  [pc |-> "idle", texts |-> <<>>, attempt |-> 0, delay |-> 0, posts |-> 0,
   failed |-> 0, func |-> [raised |-> FALSE, value |-> <<>>],
   value |-> <<>>, raised |-> FALSE]

\* the files under the input directory: (sub-directory, file name); rglob
\* descends into sub-directories, so two files may share a name
AllPaths == {<<"", "f1">>, <<"sub", "f1">>, <<"", "f2">>, <<"", "notes">>}

\* any(f.name.endswith(ext) for ext in self.patterns)
matches_patterns(path) == path[2] \in Files

\* a ledger maps file names to a timestamp or an error; NoEntry marks an
\* absent key
NoEntry == <<"absent">>
EmptyLedger == [f \in Files |-> NoEntry]
keys(ledger) == {f \in Files : ledger[f] # NoEntry}

IdleTask == [pc |-> "none", attempt |-> 0, result |-> "none"]

\* no bulk ingestor process is running
IdleBulk == [pc |-> "off"]

\* a BulkFileIngestor before its directory and ledgers are known
NewBulk ==
  [pc |-> "init", mode |-> "run", dir |-> {}, success_json |-> EmptyLedger,
   failure_json |-> EmptyLedger, success_map |-> EmptyLedger,
   failure_map |-> EmptyLedger, tasks |-> [p \in AllPaths |-> IdleTask],
   permits |-> 0, shutdown |-> FALSE,
   progress |-> [f \in Files |-> "none"], all_files |-> {}]

Init ==
  /\ query = IdleQuery
  /\ retry = IdleRetry
  /\ proc = IdleProc
  /\ bulk = IdleBulk
  /\ store = {}
  /\ checksum = [f \in Files |-> NoDigest]
  /\ status = [f \in Files |-> "none"]
  /\ redisUp = TRUE
  /\ runs = [n \in Run |-> IdleRun]
  /\ faults = 0

InFlight == {n \in Run : runs[n].pc \notin {"idle", "done"}}

Finished == {n \in Run : runs[n].pc = "done"}

\* ------------------------------------------------ digest tracker

\* a digest check that only looks whether some digest is saved
exists_presence_only(filename, content) ==
  redisUp /\ checksum[filename] # NoDigest

\* DocumentProcessor.document_exists_and_handle_update: a failed redis get
\* is caught and reported as False
document_exists_and_handle_update(filename, content) ==
  IF redisUp
  THEN checksum[filename] # NoDigest /\ checksum[filename] = sha256(content)
  ELSE FALSE

\* DocumentProcessor.save_document_checksum: a failed redis set is caught
\* and logged only
save_document_checksum(filename, content) ==
  IF redisUp
  THEN [checksum EXCEPT ![filename] = sha256(content)]
  ELSE checksum

\* ------------------------------------------------ vector store

\* the points QdrantVectorDB.add_documents upserts for one call; ids are
\* fresh uuid4 strings, modelled by (run, position)
add_documents(n, first, documents, metadatas, isSummary) ==
  { [id |-> <<n, first + k>>,
     doc_name |-> metadatas[k].doc_name,
     page |-> metadatas[k].page,
     paragraph |-> metadatas[k].paragraph,
     summary |-> isSummary,
     document |-> documents[k]] : k \in 1..Len(documents) }

\* the points a completed ingestion of (f, c) by run n leaves in the
\* collection: every chunk and the summary
Ingested(n, f, c) ==
  LET cm == ChunksOf(f, c)
  IN add_documents(n, 0, cm.chunks, cm.metadata, FALSE)
       \cup add_documents(n, -1, <<hierarchical_summarize(c)>>,
                          <<[doc_name |-> f, page |-> 0, paragraph |-> 0]>>, TRUE)

\* ------------------------------------------------ ingest_document

\* lines 121-122: the status write that precedes the try block
Start(n, f, c) ==
  /\ runs[n].pc = "idle"
  /\ \A m \in Run : m < n => runs[m].pc # "idle"
  /\ Cardinality(InFlight) < MaxInFlight
  /\ IF redisUp
     THEN /\ status' = [status EXCEPT ![f] = "started"]
          /\ runs' = [runs EXCEPT ![n] =
                        [IdleRun EXCEPT !.pc = "check", !.filename = f,
                                        !.content = c, !.pred = Finished]]
     ELSE /\ status' = status
          /\ runs' = [runs EXCEPT ![n] =
                        [IdleRun EXCEPT !.pc = "done", !.filename = f,
                                        !.content = c, !.pred = Finished,
                                        !.outcome = "crashed"]]
  /\ UNCHANGED <<proc, bulk, query, retry, store, checksum, redisUp, faults>>

\* a digest check that waits while another run for the same filename is
\* between its own check and its end
Check_with_lock(n) ==
  /\ runs[n].pc = "check"
  /\ \A m \in Run \ {n} :
        runs[m].filename = runs[n].filename
        => runs[m].pc \in {"idle", "check", "done"}
  /\ LET e == document_exists_and_handle_update(runs[n].filename, runs[n].content)
     IN runs' = [runs EXCEPT ![n].exists = e,
                             ![n].pc = IF e THEN "skip" ELSE "batch"]
  /\ UNCHANGED <<proc, bulk, query, retry, store, checksum, status, redisUp, faults>>

\* a digest check that also persists the phase it moves on to
Check_persists_phase(n) ==
  /\ runs[n].pc = "check"
  /\ LET e == document_exists_and_handle_update(runs[n].filename, runs[n].content)
     IN /\ runs' = [runs EXCEPT ![n].exists = e,
                                ![n].pc = IF e THEN "skip" ELSE "batch"]
        /\ status' = IF e \/ ~redisUp THEN status
                      ELSE [status EXCEPT ![runs[n].filename] = "extracting"]
  /\ UNCHANGED <<proc, bulk, query, retry, store, checksum, redisUp, faults>>

\* lines 125-134: digest check, extraction and chunking
Check(n) ==
  /\ runs[n].pc = "check"
  /\ LET e == document_exists_and_handle_update(runs[n].filename, runs[n].content)
     IN runs' = [runs EXCEPT ![n].exists = e,
                             ![n].pc = IF e THEN "skip" ELSE "batch"]
  /\ UNCHANGED <<proc, bulk, query, retry, store, checksum, status, redisUp, faults>>

\* lines 127-130: the skipped status write
Skip(n) ==
  /\ runs[n].pc = "skip"
  /\ IF redisUp
     THEN /\ status' = [status EXCEPT ![runs[n].filename] = "skipped"]
          /\ runs' = [runs EXCEPT ![n].pc = "done", ![n].outcome = "skipped"]
     ELSE /\ status' = status
          /\ runs' = [runs EXCEPT ![n].pc = "fail"]
  /\ UNCHANGED <<proc, bulk, query, retry, store, checksum, redisUp, faults>>

\* the outcome of one embed-then-store step: the embedding call fails, or
\* it succeeds and the store call fails, or both succeed
Faulty(embedOk, addOk) ==
  IF embedOk /\ addOk
  THEN faults' = faults
  ELSE /\ embedOk \/ addOk
       /\ faults < MaxFaults
       /\ faults' = faults + 1

\* a batch loop that stores every batch with the texts of the first chunks
BatchStep_first_chunks(n, embedOk, addOk) ==
  LET r == runs[n]
      cm == ChunksOf(r.filename, r.content)
      last == Min(r.i + BATCH_SIZE, Len(cm.chunks))
  IN IF ~embedOk
     THEN /\ runs' = [runs EXCEPT ![n].i = r.i + BATCH_SIZE,
                                  ![n].failedAt =
                                     IF r.failedAt < 0 THEN r.i ELSE r.failedAt]
          /\ store' = store
     ELSE IF addOk
     THEN /\ store' = store \cup
                      add_documents(n, r.i, SubSeq(cm.chunks, 1, last - r.i),
                                    SubSeq(cm.metadata, r.i + 1, last), FALSE)
          /\ runs' = [runs EXCEPT ![n].i = r.i + BATCH_SIZE]
     ELSE /\ runs' = [runs EXCEPT ![n].pc = "fail"]
          /\ store' = store

\* lines 135-148: one iteration of the batch loop
BatchStep(n, embedOk, addOk) ==
  LET r == runs[n]
      cm == ChunksOf(r.filename, r.content)
      last == Min(r.i + BATCH_SIZE, Len(cm.chunks))
      batch_chunks == SubSeq(cm.chunks, r.i + 1, last)
      batch_metadatas == SubSeq(cm.metadata, r.i + 1, last)
  IN IF ~embedOk
     THEN \* batch_embed_texts returned []: warning and continue
          /\ runs' = [runs EXCEPT ![n].i = r.i + BATCH_SIZE,
                                  ![n].failedAt =
                                     IF r.failedAt < 0 THEN r.i ELSE r.failedAt]
          /\ store' = store
     ELSE IF addOk
     THEN /\ store' = store \cup
                      add_documents(n, r.i, batch_chunks, batch_metadatas, FALSE)
          /\ runs' = [runs EXCEPT ![n].i = r.i + BATCH_SIZE]
     ELSE \* add_documents raised
          /\ runs' = [runs EXCEPT ![n].pc = "fail"]
          /\ store' = store

Batch(n) ==
  /\ runs[n].pc = "batch"
  /\ runs[n].i < Len(ChunksOf(runs[n].filename, runs[n].content).chunks)
  /\ \E embedOk, addOk \in BOOLEAN :
        /\ Faulty(embedOk, addOk)
        /\ BatchStep(n, embedOk, addOk)
  /\ UNCHANGED <<proc, bulk, query, retry, checksum, status, redisUp>>

\* lines 149-160: summary record
SummaryStep(n, embedOk, addOk) ==
  LET r == runs[n]
      summary == hierarchical_summarize(r.content)
  IN IF ~embedOk
     THEN /\ runs' = [runs EXCEPT ![n].pc = "save"]
          /\ store' = store
     ELSE IF addOk
     THEN /\ store' = store \cup
                add_documents(n, -1, <<summary>>,
                              <<[doc_name |-> r.filename, page |-> 0,
                                 paragraph |-> 0]>>, TRUE)
          /\ runs' = [runs EXCEPT ![n].pc = "save"]
     ELSE /\ runs' = [runs EXCEPT ![n].pc = "fail"]
          /\ store' = store

Summarize(n) ==
  /\ runs[n].pc = "batch"
  /\ runs[n].i >= Len(ChunksOf(runs[n].filename, runs[n].content).chunks)
  /\ \E embedOk, addOk \in BOOLEAN :
        /\ Faulty(embedOk, addOk)
        /\ SummaryStep(n, embedOk, addOk)
  /\ UNCHANGED <<proc, bulk, query, retry, checksum, status, redisUp>>

\* line 161
Save(n) ==
  /\ runs[n].pc = "save"
  /\ checksum' = save_document_checksum(runs[n].filename, runs[n].content)
  /\ runs' = [runs EXCEPT ![n].pc = "complete"]
  /\ UNCHANGED <<proc, bulk, query, retry, store, status, redisUp, faults>>

\* line 162
Complete(n) ==
  /\ runs[n].pc = "complete"
  /\ IF redisUp
     THEN /\ status' = [status EXCEPT ![runs[n].filename] = "completed"]
          /\ runs' = [runs EXCEPT ![n].pc = "done", ![n].outcome = "completed"]
     ELSE /\ status' = status
          /\ runs' = [runs EXCEPT ![n].pc = "fail"]
  /\ UNCHANGED <<proc, bulk, query, retry, store, checksum, redisUp, faults>>

\* lines 163-166: the except handler; its own status write is unguarded
Fail(n) ==
  /\ runs[n].pc = "fail"
  /\ IF redisUp
     THEN /\ status' = [status EXCEPT ![runs[n].filename] = "failed"]
          /\ runs' = [runs EXCEPT ![n].pc = "done", ![n].outcome = "failed"]
     ELSE /\ status' = status
          /\ runs' = [runs EXCEPT ![n].pc = "done", ![n].outcome = "crashed"]
  /\ UNCHANGED <<proc, bulk, query, retry, store, checksum, redisUp, faults>>

\* the redis server goes away or comes back
RedisToggle ==
  /\ redisUp' = ~redisUp
  /\ IF redisUp
     THEN faults < MaxFaults /\ faults' = faults + 1
     ELSE faults' = faults
  /\ UNCHANGED <<proc, bulk, query, retry, store, checksum, status, runs>>

Next ==
  \/ \E n \in Run, f \in Files, c \in Contents : Start(n, f, c)
  \/ \E n \in Run : Check(n)
  \/ \E n \in Run : Skip(n)
  \/ \E n \in Run : Batch(n)
  \/ \E n \in Run : Summarize(n)
  \/ \E n \in Run : Save(n)
  \/ \E n \in Run : Complete(n)
  \/ \E n \in Run : Fail(n)
  \/ RedisToggle

Spec == Init /\ [][Next]_vars

\* The collection and redis outlive the service process.  PriorInit is the
\* state a completed ingestion of (f1, c) in an earlier process lifetime
\* has left: its points (generation 0), its digest and its status.
PriorInit ==
  /\ query = IdleQuery
  /\ retry = IdleRetry
  /\ proc = IdleProc
  /\ bulk = IdleBulk
  /\ redisUp = TRUE
  /\ faults = 0
  /\ runs = [n \in Run |-> IdleRun]
  /\ \E c \in Contents :
        /\ store = Ingested(0, "f1", c)
        /\ checksum = [f \in Files |-> IF f = "f1" THEN sha256(c) ELSE NoDigest]
        /\ status = [f \in Files |-> IF f = "f1" THEN "completed" ELSE "none"]

PriorSpec == PriorInit /\ [][Next]_vars

\* ------------------------------------------------ query_docs

\* similarities, distances and scores are in tenths: One is the literal 1
\* of `1 - distance`, SIMILARITY_THRESHOLD the default 0.5
One == 10
SIMILARITY_THRESHOLD == 5

\* MAX_QA_TOKENS (ingest_service.py:180), configured to 4 words
MAX_QA_TOKENS == 4

\* top_k of the vector query (ingest_service.py:184)
TOP_K == 10

\* what the vector search reports as hit.score, what the cross-encoder
\* predicts, and what the question-answering pipeline returns
HitScores == {2, 5, 8}
RerankScores == {0, 1}
Answers == {"", "a1", "zz"}
QaScores == {0, 9}
Questions == {"q1"}

\* len(text.split()); the summary of cA is as long as cA itself and longer
\* than the configured budget
Words(text) ==
  CASE text = "a1" -> 2
    [] text = "a2" -> 2
    [] text = "a3" -> 1
    [] text = "b1" -> 3
    [] text = "sA" -> 5
    [] text = "sB" -> 1
    [] OTHER -> 0

\* a set as a list, in the order the store scrolls it
RECURSIVE SetToSeq(_)
SetToSeq(S) ==
  IF S = {} THEN <<>>
  ELSE LET x == CHOOSE y \in S : TRUE IN <<x>> \o SetToSeq(S \ {x})

\* sorted(items, key=..., reverse=True) on <<key, item>> pairs: descending
\* by key, items of equal key in their original order
RECURSIVE sorted_reverse(_)
sorted_reverse(pairs) ==
  IF pairs = <<>> THEN <<>>
  ELSE LET x == Head(pairs)
           rest == sorted_reverse(Tail(pairs))
           pos == Cardinality({k \in 1..Len(rest) : rest[k][1] > x[1]})
       IN SubSeq(rest, 1, pos) \o <<x>> \o SubSeq(rest, pos + 1, Len(rest))

Items(pairs) == [k \in 1..Len(pairs) |-> pairs[k][2]]

\* client.search(limit=top_k, with_payload=True): the points of the
\* collection by descending score, at most top_k of them
search(sc, top_k) ==
  LET pts == SetToSeq(store)
      hits == Items(sorted_reverse([k \in 1..Len(pts) |-> <<sc[pts[k]], pts[k]>>]))
  IN [k \in 1..Min(top_k, Len(hits)) |-> [payload |-> hits[k], score |-> sc[hits[k]]]]

\* QdrantVectorDB.query: the hits as parallel lists, plus the summary texts
\* of the documents hit (none when the scroll fails)
QdrantQuery(search_result, scrollOk) ==
  LET doc_names == {search_result[k].payload.doc_name : k \in 1..Len(search_result)}
      summary_hits == SetToSeq({p \in store : p.summary /\ p.doc_name \in doc_names})
  IN [documents |-> [k \in 1..Len(search_result) |-> search_result[k].payload.document],
      metadatas |-> [k \in 1..Len(search_result) |->
                       [doc_name |-> search_result[k].payload.doc_name,
                        page |-> search_result[k].payload.page,
                        paragraph |-> search_result[k].payload.paragraph,
                        summary |-> search_result[k].payload.summary]],
      distances |-> [k \in 1..Len(search_result) |-> search_result[k].score],
      summaries |-> IF scrollOk /\ doc_names # {}
                    THEN [k \in 1..Len(summary_hits) |-> summary_hits[k].document]
                    ELSE <<>>]

\* a filter that keeps every match
keep_all_matches(results) ==
  [k \in 1..Len(results.documents) |->
     [document |-> results.documents[k],
      metadata |-> results.metadatas[k],
      score |-> One - results.distances[k]]]

\* lines 191-200: distance to similarity, keep the matches at or above the
\* threshold
similarity_filter(results) ==
  LET zipped == [k \in 1..Len(results.documents) |->
                   [document |-> results.documents[k],
                    metadata |-> results.metadatas[k],
                    score |-> One - results.distances[k]]]
      AtOrAbove(d) == d.score >= SIMILARITY_THRESHOLD
  IN SelectSeq(zipped, AtOrAbove)

\* line 215 and rerank_with_cross_encoder: sort by score, then by the
\* predicted rerank score, both descending
rerank_with_cross_encoder(all_docs, scores) ==
  LET by_score == Items(sorted_reverse(
                    [k \in 1..Len(all_docs) |-> <<all_docs[k].score, all_docs[k]>>]))
  IN Items(sorted_reverse(
       [k \in 1..Len(by_score) |-> <<scores[k], by_score[k]>>]))

\* len(summary_text.split()) of the joined summaries
RECURSIVE SumWords(_)
SumWords(texts) ==
  IF texts = <<>> THEN 0 ELSE Words(Head(texts)) + SumWords(Tail(texts))

\* lines 229-234: the chunk texts added to the context, stopping at the
\* first one that would exceed the budget
RECURSIVE context_loop(_, _)
context_loop(docs, token_count) ==
  IF docs = <<>> THEN <<>>
  ELSE LET doc_tokens == Words(Head(docs).document)
       IN IF token_count + doc_tokens > MAX_QA_TOKENS
          THEN <<>>
          ELSE <<Head(docs).document>>
                 \o context_loop(Tail(docs), token_count + doc_tokens)

\* lines 220-237: the summary part, the chunk parts and the word count
build_context(summaries, all_docs) ==
  LET start == IF summaries # <<>> THEN SumWords(summaries) ELSE 0
      chunks == context_loop(all_docs, start)
  IN [summary |-> summaries, chunks |-> chunks,
      token_count |-> start + SumWords(chunks)]

ResponseKeys ==
  {"question", "answer", "score", "context", "summary", "sources", "ranked_matches"}

\* lines 204-212
NoContextResponse(question) ==
  [keys |-> ResponseKeys,
   question |-> question, answer |-> "No relevant information found.",
   score |-> 0, context |-> <<>>, summary |-> <<>>, sources |-> <<>>,
   ranked_matches |-> <<>>]

\* lines 264-272
ErrorResponse(question) ==
  [keys |-> ResponseKeys,
   question |-> question,
   answer |-> "An error occurred while processing your query.",
   score |-> 0, context |-> <<>>, summary |-> <<>>, sources |-> <<>>,
   ranked_matches |-> <<>>]

\* lines 240-260
AnswerResponse(question, all_docs, summaries, answer, score) ==
  [keys |-> ResponseKeys \cup {"rag_metrics"},
   question |-> question,
   answer |-> IF answer = "" THEN "I'm not sure based on the available information."
              ELSE answer,
   score |-> score,
   context |-> [k \in 1..Len(all_docs) |-> all_docs[k].document],
   summary |-> summaries,
   sources |-> [k \in 1..Len(all_docs) |-> all_docs[k].metadata],
   ranked_matches |-> [k \in 1..Len(all_docs) |->
                         [text |-> all_docs[k].document,
                          metadata |-> all_docs[k].metadata,
                          similarity |-> all_docs[k].score]]]

\* a query arrives
QStart(question) ==
  /\ query.pc = "idle"
  /\ query' = [IdleQuery EXCEPT !.pc = "embed", !.question = question]
  /\ UNCHANGED <<proc, ingestVars, retry, bulk>>

\* an embedding step whose failure leaves query_docs by an exception
QEmbed_propagates ==
  /\ query.pc = "embed"
  /\ \E embedOk \in BOOLEAN :
        query' = IF embedOk
                 THEN [query EXCEPT !.pc = "search"]
                 ELSE [query EXCEPT !.pc = "raised", !.failed = "embed"]
  /\ UNCHANGED <<proc, ingestVars, retry, bulk>>

\* line 183: batch_embed_texts([question])[0]; an empty result makes the
\* index fail, which the handler turns into the error response
QEmbed ==
  /\ query.pc = "embed"
  /\ \E embedOk \in BOOLEAN :
        query' = IF embedOk
                 THEN [query EXCEPT !.pc = "search"]
                 ELSE [query EXCEPT !.pc = "done", !.failed = "embed",
                                    !.response = ErrorResponse(query.question)]
  /\ UNCHANGED <<proc, ingestVars, retry, bulk>>

\* lines 184-189
QSearch ==
  /\ query.pc = "search"
  /\ \E queryOk, scrollOk \in BOOLEAN, sc \in [store -> HitScores] :
        query' = IF queryOk
                 THEN [query EXCEPT !.pc = "filter", !.searched = TRUE,
                                    !.results = QdrantQuery(search(sc, TOP_K), scrollOk)]
                 ELSE [query EXCEPT !.pc = "done", !.failed = "query",
                                    !.response = ErrorResponse(query.question)]
  /\ UNCHANGED <<proc, ingestVars, retry, bulk>>

\* a filter step without the short-circuit on an empty match list
QFilter_no_short_circuit ==
  /\ query.pc = "filter"
  /\ query' = [query EXCEPT !.pc = "rerank",
                            !.all_docs = similarity_filter(query.results)]
  /\ UNCHANGED <<proc, ingestVars, retry, bulk>>

\* lines 191-212
QFilter ==
  /\ query.pc = "filter"
  /\ LET all_docs == similarity_filter(query.results)
     IN query' = IF all_docs = <<>>
                 THEN [query EXCEPT !.pc = "done",
                                    !.response = NoContextResponse(query.question)]
                 ELSE [query EXCEPT !.pc = "rerank", !.all_docs = all_docs]
  /\ UNCHANGED <<proc, ingestVars, retry, bulk>>

\* lines 214-217
QRerank ==
  /\ query.pc = "rerank"
  /\ \E rerankOk \in BOOLEAN, scores \in [1..Len(query.all_docs) -> RerankScores] :
        query' = IF rerankOk
                 THEN [query EXCEPT !.pc = "answer",
                                    !.all_docs =
                                       rerank_with_cross_encoder(query.all_docs, scores)]
                 ELSE [query EXCEPT !.pc = "done", !.failed = "rerank",
                                    !.response = ErrorResponse(query.question)]
  /\ UNCHANGED <<proc, ingestVars, retry, bulk>>

\* lines 220-260
QAnswer ==
  /\ query.pc = "answer"
  /\ \E qaOk \in BOOLEAN, answer \in Answers, score \in QaScores :
        LET ctx == build_context(query.results.summaries, query.all_docs) IN
        query' = IF qaOk
                 THEN [query EXCEPT !.pc = "done",
                                    !.context = ctx,
                                    !.qaCalls = query.qaCalls + 1,
                                    !.response =
                                       AnswerResponse(query.question, query.all_docs,
                                                      query.results.summaries,
                                                      answer, score)]
                 ELSE [query EXCEPT !.pc = "done", !.failed = "qa",
                                    !.context = ctx,
                                    !.qaCalls = query.qaCalls + 1,
                                    !.response = ErrorResponse(query.question)]
  /\ UNCHANGED <<proc, ingestVars, retry, bulk>>

\* the collections queried: empty, or holding one completed ingestion
QInit == Init \/ PriorInit

QNext ==
  \/ \E question \in Questions : QStart(question)
  \/ QEmbed
  \/ QSearch
  \/ QFilter
  \/ QRerank
  \/ QAnswer

QuerySpec == QInit /\ [][QNext]_vars

\* ------------------------------------------------ async_retry

\* async_retry(retries=3, backoff=1.5): delays are in hundredths of a
\* second, the first delay is 1 s, the jitter is drawn from [0, 0.5]
RETRIES == 3
INITIAL_DELAY == 100
BACKOFF == 150
Jitters == {0, 25, 50}

\* length of the text batches handed to the embedder
MaxTexts == 2

Texts == {"a1", "a2", "a3", "b1"}

TextBatches == UNION {[1..k -> Texts] : k \in 1..MaxTexts}

\* the embedder service's vector for one text
embedding(text) == <<"vec", text>>

\* batch_embed_texts (ingest.py:167-175): the POST and its status check are
\* inside a try whose handler logs and returns []
batch_embed_texts(texts, postOk) ==
  IF postOk
  THEN [raised |-> FALSE, value |-> [k \in 1..Len(texts) |-> embedding(texts[k])]]
  ELSE [raised |-> FALSE, value |-> <<>>]

\* the decorated function is called: wrapper sets delay = 1 and enters the loop
RCall ==
  /\ retry.pc = "idle"
  /\ retry' = [retry EXCEPT !.pc = "loop", !.attempt = 0, !.delay = INITIAL_DELAY]
  /\ UNCHANGED <<proc, ingestVars, query, bulk>>

\* line 184: one attempt, `await func(*args, **kwargs)`
RAttempt ==
  /\ retry.pc = "loop"
  /\ \E postOk \in BOOLEAN :
        retry' = [retry EXCEPT !.pc = "returned",
                               !.posts = retry.posts + 1,
                               !.failed = retry.failed + (IF postOk THEN 0 ELSE 1),
                               !.func = batch_embed_texts(retry.texts, postOk)]
  /\ UNCHANGED <<proc, ingestVars, query, bulk>>

\* lines 184-190: return the value, or handle the exception: re-raise on the
\* last attempt, else sleep and lengthen the delay
RWrapper ==
  /\ retry.pc = "returned"
  /\ \E jitter \in Jitters :
        retry' = IF ~retry.func.raised
                 THEN [retry EXCEPT !.pc = "done", !.value = retry.func.value]
                 ELSE IF retry.attempt = RETRIES - 1
                 THEN [retry EXCEPT !.pc = "done", !.raised = TRUE]
                 ELSE [retry EXCEPT !.pc = "loop",
                                    !.attempt = retry.attempt + 1,
                                    !.delay = (retry.delay * (BACKOFF + jitter)) \div 100]
  /\ UNCHANGED <<proc, ingestVars, query, bulk>>

\* the calls made: any batch of texts
RInit ==
  /\ \E texts \in TextBatches : retry = [IdleRetry EXCEPT !.texts = texts]
  /\ query = IdleQuery
  /\ proc = IdleProc
  /\ bulk = IdleBulk
  /\ store = {}
  /\ checksum = [f \in Files |-> NoDigest]
  /\ status = [f \in Files |-> "none"]
  /\ redisUp = TRUE
  /\ runs = [n \in Run |-> IdleRun]
  /\ faults = 0

RNext ==
  \/ RCall
  \/ RAttempt
  \/ RWrapper

RetrySpec == RInit /\ [][RNext]_vars

\* ------------------------------------------------ bulk ingestor

\* --concurrency: the value of the semaphore
BulkConcurrency == 1

\* retries of one upload (bulk_ingestor.py:178)
BULK_RETRIES == 5

Modes == {"run", "retry"}

\* datetime.now().isoformat(), str(e) of a failed attempt, and the
\* ValueError raised before any attempt when the encoded content is empty
Timestamp == <<"at">>
ErrorOf(attempt) == <<"error", attempt>>
EncodeError == <<"error", 0>>

\* a ledger file that json.load cannot parse
Corrupt == [f \in Files |-> <<"unreadable">>]

LedgersOf(value) == [Files -> {NoEntry, value}]

\* BulkFileIngestor._read_json: a missing or unreadable file gives {}
read_json(file) == IF file = Corrupt THEN EmptyLedger ELSE file

\* BulkFileIngestor._write_json: the dump may fail before the file is
\* opened (file unchanged) or after it was truncated
write_json(file, data, outcome) ==
  CASE outcome = "written" -> data
    [] outcome = "unchanged" -> file
    [] outcome = "truncated" -> Corrupt

WriteOutcomes == {"written", "unchanged", "truncated"}

\* BulkFileIngestor._track_progress: a failed redis set is caught
track_progress(progress, filename, value) ==
  IF redisUp THEN [progress EXCEPT ![filename] = value] ELSE progress

\* the tasks created for a list of paths, and the tasks still to finish
TasksFor(paths) ==
  [p \in AllPaths |-> IF p \in paths THEN [IdleTask EXCEPT !.pc = "new"]
                      ELSE IdleTask]

Dispatched == {p \in AllPaths : bulk.tasks[p].pc # "none"}

\* BulkFileIngestor.__init__ on some directory and some ledger files (as
\* an earlier run wrote them), and the command given
BulkInit ==
  /\ query = IdleQuery
  /\ retry = IdleRetry
  /\ proc = IdleProc
  /\ store = {}
  /\ checksum = [f \in Files |-> NoDigest]
  /\ status = [f \in Files |-> "none"]
  /\ redisUp = TRUE
  /\ runs = [n \in Run |-> IdleRun]
  /\ faults = 0
  /\ \E mode \in Modes, dir \in SUBSET AllPaths,
        success_json \in LedgersOf(Timestamp),
        failure_json \in LedgersOf(ErrorOf(BULK_RETRIES)) :
        /\ <<"", "notes">> \in dir
        /\ bulk = [NewBulk EXCEPT !.mode = mode, !.dir = dir,
                                   !.success_json = success_json,
                                   !.failure_json = failure_json,
                                   !.success_map = read_json(success_json),
                                   !.failure_map = read_json(failure_json)]

\* run_ingestion up to the gather (lines 209-237)
RunIngestion ==
  /\ bulk.pc = "init"
  /\ bulk.mode = "run"
  /\ LET all_files == {p \in bulk.dir : matches_patterns(p)}
         done_files == keys(bulk.success_map)
         pending_files == {p \in all_files : p[2] \notin done_files}
     IN bulk' =
          IF ~redisUp
          THEN \* redis.delete raises: the outer handler logs and returns
               [bulk EXCEPT !.pc = "returned"]
          ELSE IF pending_files = {}
          THEN [bulk EXCEPT !.pc = "returned", !.all_files = {}]
          ELSE [bulk EXCEPT !.pc = "gather",
                            !.all_files = {p[2] : p \in pending_files},
                            !.permits = BulkConcurrency,
                            !.tasks = TasksFor(pending_files)]
  /\ UNCHANGED <<proc, ingestVars, query, retry>>

\* retry_failures up to the gather (lines 247-261)
RetryFailures ==
  /\ bulk.pc = "init"
  /\ bulk.mode = "retry"
  /\ LET failed_files == keys(bulk.failure_map)
         paths == {<<"", fname>> : fname \in {f \in failed_files : <<"", f>> \in bulk.dir}}
     IN bulk' =
          IF failed_files = {}
          THEN [bulk EXCEPT !.pc = "returned"]
          ELSE [bulk EXCEPT !.pc = "gather",
                            !.failure_map = EmptyLedger,
                            !.permits = BulkConcurrency,
                            !.tasks = TasksFor(paths)]
  /\ UNCHANGED <<proc, ingestVars, query, retry>>

\* `async with semaphore` entered (line 175), then the "started" progress
\* write and the first attempt is under way
Entered(p) ==
  [bulk EXCEPT !.permits = bulk.permits - 1,
               !.tasks[p] = [pc |-> "posting", attempt |-> 1, result |-> "none"],
               !.progress = track_progress(bulk.progress, p[2], "started")]

\* a task start that enters without looking at the semaphore
IngestFileBegin_unbounded(p) ==
  /\ bulk.pc = "gather"
  /\ bulk.tasks[p].pc = "new"
  /\ \E encodeOk \in BOOLEAN :
        bulk' =
          IF bulk.shutdown
          THEN [bulk EXCEPT !.tasks[p] = [pc |-> "done", attempt |-> 0,
                                          result |-> "shutdown"]]
          ELSE IF ~encodeOk
          THEN [bulk EXCEPT !.tasks[p] = [pc |-> "done", attempt |-> 0,
                                          result |-> "failed"],
                            !.failure_map[p[2]] = EncodeError,
                            !.progress = track_progress(bulk.progress, p[2], "failed")]
          ELSE Entered(p)
  /\ UNCHANGED <<proc, ingestVars, query, retry>>

\* the task of _ingest_file(p) runs from its start to its first
\* suspension (lines 160-176): the shutdown check, the encoding, and the
\* semaphore, which is taken at once when a slot is free
IngestFileBegin(p) ==
  /\ bulk.pc = "gather"
  /\ bulk.tasks[p].pc = "new"
  /\ \E encodeOk \in BOOLEAN :
        bulk' =
          IF bulk.shutdown
          THEN [bulk EXCEPT !.tasks[p] = [pc |-> "done", attempt |-> 0,
                                          result |-> "shutdown"]]
          ELSE IF ~encodeOk
          THEN [bulk EXCEPT !.tasks[p] = [pc |-> "done", attempt |-> 0,
                                          result |-> "failed"],
                            !.failure_map[p[2]] = EncodeError,
                            !.progress = track_progress(bulk.progress, p[2], "failed")]
          ELSE IF bulk.permits > 0
          THEN Entered(p)
          ELSE [bulk EXCEPT !.tasks[p].pc = "waiting"]
  /\ UNCHANGED <<proc, ingestVars, query, retry>>

\* gather schedules every task at once and each task runs to its first
\* suspension before the event loop handles any completion: no task goes
\* on while another has not begun
AllBegun == \A p \in AllPaths : bulk.tasks[p].pc # "new"

\* a task waiting at `async with semaphore` gets a released slot
IngestFileAcquire(p) ==
  /\ bulk.pc = "gather"
  /\ AllBegun
  /\ bulk.tasks[p].pc = "waiting"
  /\ bulk.permits > 0
  /\ bulk' = Entered(p)
  /\ UNCHANGED <<proc, ingestVars, query, retry>>

\* an attempt loop that records the failure at the first failed attempt
IngestFilePost_gives_up(p) ==
  /\ bulk.pc = "gather"
  /\ AllBegun
  /\ bulk.tasks[p].pc = "posting"
  /\ \E postOk \in BOOLEAN :
        LET attempt == bulk.tasks[p].attempt IN
        bulk' =
          IF postOk
          THEN [bulk EXCEPT !.permits = bulk.permits + 1,
                            !.success_map[p[2]] = Timestamp,
                            !.failure_map[p[2]] = NoEntry,
                            !.progress = track_progress(bulk.progress, p[2], "success"),
                            !.tasks[p] = [pc |-> "done", attempt |-> attempt,
                                          result |-> "success"]]
          ELSE [bulk EXCEPT !.permits = bulk.permits + 1,
                            !.failure_map[p[2]] = ErrorOf(attempt),
                            !.progress = track_progress(bulk.progress, p[2], "failed"),
                            !.tasks[p] = [pc |-> "done", attempt |-> attempt,
                                          result |-> "failed"]]
  /\ UNCHANGED <<proc, ingestVars, query, retry>>

\* one attempt of the retry loop ends (lines 180-206): success leaves the
\* loop and the semaphore and updates the ledgers; a failure before the
\* last attempt starts the backoff sleep; the last failure leaves the
\* semaphore by the exception and is recorded by the handler
IngestFilePost(p) ==
  /\ bulk.pc = "gather"
  /\ AllBegun
  /\ bulk.tasks[p].pc = "posting"
  /\ \E postOk \in BOOLEAN :
        LET attempt == bulk.tasks[p].attempt IN
        bulk' =
          IF postOk
          THEN [bulk EXCEPT !.permits = bulk.permits + 1,
                            !.success_map[p[2]] = Timestamp,
                            !.failure_map[p[2]] = NoEntry,
                            !.progress = track_progress(bulk.progress, p[2], "success"),
                            !.tasks[p] = [pc |-> "done", attempt |-> attempt,
                                          result |-> "success"]]
          ELSE IF attempt = BULK_RETRIES
          THEN [bulk EXCEPT !.permits = bulk.permits + 1,
                            !.failure_map[p[2]] = ErrorOf(attempt),
                            !.progress = track_progress(bulk.progress, p[2], "failed"),
                            !.tasks[p] = [pc |-> "done", attempt |-> attempt,
                                          result |-> "failed"]]
          ELSE [bulk EXCEPT !.tasks[p].pc = "sleeping"]
  /\ UNCHANGED <<proc, ingestVars, query, retry>>

\* the backoff sleep ends and the next attempt starts (lines 190-192, 180)
IngestFileWake(p) ==
  /\ bulk.pc = "gather"
  /\ AllBegun
  /\ bulk.tasks[p].pc = "sleeping"
  /\ bulk' = [bulk EXCEPT !.tasks[p].pc = "posting",
                          !.tasks[p].attempt = bulk.tasks[p].attempt + 1]
  /\ UNCHANGED <<proc, ingestVars, query, retry>>

\* an end of run that writes the success ledger and forgets the failure
\* ledger
WriteLedgers_success_only ==
  /\ bulk.pc = "gather"
  /\ \A p \in Dispatched : bulk.tasks[p].pc = "done"
  /\ bulk' = [bulk EXCEPT !.pc = "returned", !.success_json = bulk.success_map]
  /\ UNCHANGED <<proc, ingestVars, query, retry>>

\* the gather returns and both ledgers are written (lines 239-241, 263-265)
WriteLedgers ==
  /\ bulk.pc = "gather"
  /\ \A p \in Dispatched : bulk.tasks[p].pc = "done"
  /\ \E so, fo \in WriteOutcomes :
        /\ so = "written" \/ fo = "written"
        /\ IF so = "written" /\ fo = "written"
           THEN faults' = faults
           ELSE faults < MaxFaults /\ faults' = faults + 1
        /\ bulk' = [bulk EXCEPT !.pc = "returned",
                                !.success_json = write_json(bulk.success_json,
                                                            bulk.success_map, so),
                                !.failure_json = write_json(bulk.failure_json,
                                                            bulk.failure_map, fo)]
  /\ UNCHANGED <<proc, store, checksum, status, redisUp, runs, query, retry>>

\* setup_signal_handlers: SIGINT or SIGTERM sets the shutdown event
Shutdown ==
  /\ bulk.pc \in {"init", "gather", "returned"}
  /\ ~bulk.shutdown
  /\ bulk' = [bulk EXCEPT !.shutdown = TRUE]
  /\ UNCHANGED <<proc, ingestVars, query, retry>>

\* main (lines 306-312): after the command returns, main waits for the
\* shutdown event and then exits
MainExit ==
  /\ bulk.pc = "returned"
  /\ bulk.shutdown
  /\ bulk' = [bulk EXCEPT !.pc = "exited"]
  /\ UNCHANGED <<proc, ingestVars, query, retry>>

BulkNext ==
  \/ RunIngestion
  \/ RetryFailures
  \/ \E p \in AllPaths : IngestFileBegin(p)
  \/ \E p \in AllPaths : IngestFileAcquire(p)
  \/ \E p \in AllPaths : IngestFilePost(p)
  \/ \E p \in AllPaths : IngestFileWake(p)
  \/ WriteLedgers
  \/ Shutdown
  \/ MainExit
  \/ RedisToggle

BulkSpec == BulkInit /\ [][BulkNext]_vars

\* ------------------------------------ the document processor alone

\* pages of one document
MaxPages == 2

Exts == {"pdf", "md", "xml", "txt"}

\* the paragraph texts of one page
ParagraphLists ==
  { <<>>, <<Blank>>, << <<"t1">> >>, << <<"t1", "t2">> >>,
    << Blank, <<"t3">> >>, << <<"t4">>, Unsplittable >> }

Pages == {Page(TRUE, ps) : ps \in ParagraphLists} \cup {Page(FALSE, <<>>)}

PageLists == UNION {[1..n -> Pages] : n \in 0..MaxPages}

Documents ==
  {Doc(v, e, p, pages) :
     v \in BOOLEAN, e \in Exts, p \in BOOLEAN, pages \in PageLists}

\* the except clause extract_text_and_metadata ends in: the outer one
\* (line 81) for base64.b64decode, or the one of the format
extract_failure(doc) ==
  IF ~doc.valid_base64 THEN "outer"
  ELSE IF doc.ext = "pdf"
  THEN IF ~doc.parses \/ \E k \in 1..Len(doc.pages) : ~doc.pages[k].ok
       THEN "pdf" ELSE "none"
  ELSE IF doc.ext \in {"md", "akn", "xml"}
  THEN IF ~doc.parses THEN "markup" ELSE "none"
  ELSE "none"

ProcInit ==
  /\ proc = IdleProc
  /\ query = IdleQuery
  /\ retry = IdleRetry
  /\ bulk = IdleBulk
  /\ store = {}
  /\ checksum = [f \in Files |-> NoDigest]
  /\ status = [f \in Files |-> "none"]
  /\ redisUp = TRUE
  /\ runs = [n \in Run |-> IdleRun]
  /\ faults = 0

\* extract_text_and_metadata(filename, base64_content) returns; no
\* exception leaves it (lines 32, 81-85)
PExtract(doc) ==
  /\ proc.pc = "idle"
  /\ proc' = [pc |-> "extracted", doc |-> doc, raised |-> FALSE,
              failure |-> extract_failure(doc),
              pages |-> extract_sections(doc),
              filename |-> "", chunks |-> <<>>, metadata |-> <<>>]
  /\ UNCHANGED <<ingestVars, query, retry, bulk>>

\* ingest_service.py:132-134: the sections get the file name, then
\* chunk_text_with_metadata(pages)
PChunk(f) ==
  /\ proc.pc = "extracted"
  /\ LET pages == with_doc_name(f, proc.pages)
         r == chunk_text_with_metadata(pages)
     IN proc' = [proc EXCEPT !.pc = "chunked", !.filename = f,
                             !.pages = pages,
                             !.chunks = r.chunks, !.metadata = r.metadata]
  /\ UNCHANGED <<ingestVars, query, retry, bulk>>

ProcNext ==
  \/ \E doc \in Documents : PExtract(doc)
  \/ \E f \in Files : PChunk(f)

ProcSpec == ProcInit /\ [][ProcNext]_vars

\* ------------------------- ingestion of documents with nothing to chunk

EdgeNext ==
  \/ \E n \in Run, f \in Files, c \in EdgeContents : Start(n, f, c)
  \/ \E n \in Run : Check(n)
  \/ \E n \in Run : Skip(n)
  \/ \E n \in Run : Batch(n)
  \/ \E n \in Run : Summarize(n)
  \/ \E n \in Run : Save(n)
  \/ \E n \in Run : Complete(n)
  \/ \E n \in Run : Fail(n)
  \/ RedisToggle

EdgeSpec == Init /\ [][EdgeNext]_vars

\* ------------------------- the bulk ingestor against the ingest route

\* a bulk run over a directory with f1 and empty ledgers; the service has
\* ingested nothing yet, or f1 in an earlier lifetime
PipelineInit ==
  /\ query = IdleQuery
  /\ retry = IdleRetry
  /\ proc = IdleProc
  /\ redisUp = TRUE
  /\ faults = 0
  /\ runs = [n \in Run |-> IdleRun]
  /\ bulk = [NewBulk EXCEPT !.mode = "run",
                             !.dir = {<<"", "f1">>, <<"", "notes">>}]
  /\ \/ /\ store = {}
        /\ checksum = [f \in Files |-> NoDigest]
        /\ status = [f \in Files |-> "none"]
     \/ \E c \in Contents :
          /\ store = Ingested(0, "f1", c)
          /\ checksum = [f \in Files |-> IF f = "f1" THEN sha256(c) ELSE NoDigest]
          /\ status = [f \in Files |-> IF f = "f1" THEN "completed" ELSE "none"]

\* POST /ingest (ingestion_routes.py:12-25): the route queues
\* ingest_document as a background task and answers "accepted"; the task
\* starts after the answer was sent, which is when _ingest_file takes the
\* post as a success
IngestRoute(n, f, c) ==
  /\ Cardinality({m \in Run : runs[m].pc # "idle" /\ runs[m].filename = f})
       < Cardinality({p \in AllPaths : /\ bulk.tasks[p].result = "success"
                                       /\ p[2] = f})
  /\ Start(n, f, c)

\* with one file to dispatch no task waits at the semaphore
PipelineNext ==
  \/ RunIngestion
  \/ \E p \in AllPaths : IngestFileBegin(p)
  \/ \E p \in AllPaths : IngestFilePost(p)
  \/ \E p \in AllPaths : IngestFileWake(p)
  \/ WriteLedgers
  \/ Shutdown
  \/ MainExit
  \/ \E n \in Run, f \in Files, c \in Contents : IngestRoute(n, f, c)
  \/ \E n \in Run : Check(n)
  \/ \E n \in Run : Skip(n)
  \/ \E n \in Run : Batch(n)
  \/ \E n \in Run : Summarize(n)
  \/ \E n \in Run : Save(n)
  \/ \E n \in Run : Complete(n)
  \/ \E n \in Run : Fail(n)
  \/ RedisToggle

PipelineSpec == PipelineInit /\ [][PipelineNext]_vars

\* ------------------------------------------- the summarizer alone

\* windows of one text (len(text) / SUMMARY_CHUNK_SIZE, rounded up)
MaxWindows == 3

\* text[i:i + chunk_size] for the windows of a text; a text is a list of
\* words here, the empty string is <<>>
WindowLists == UNION {[1..n -> {"w1", "w2"}] : n \in 0..MaxWindows}

\* self.summarizer(text, ...)[0]['summary_text'] when the call succeeds
summarizer(text) == <<"summary of">> \o text

\* " ".join(summaries)
RECURSIVE join(_)
join(summaries) ==
  IF summaries = <<>> THEN <<>>
  ELSE IF Len(summaries) = 1 THEN Head(summaries)
  ELSE Head(summaries) \o <<" ">> \o join(Tail(summaries))

\* IngestService.hierarchical_summarize (lines 85-115) on the windows of a
\* text; ok[i] tells whether the summarizer call for window i succeeds,
\* finalOk whether the call on the combined summary does
summarize_windows(chunks, ok, finalOk) ==
  LET summaries == [i \in 1..Len(chunks) |->
                      IF ok[i] THEN summarizer(<<chunks[i]>>) ELSE <<>>]
      combined_summary == join(summaries)
  IN [summaries |-> summaries,
      final_summary |-> IF finalOk THEN summarizer(combined_summary)
                        ELSE combined_summary]

\* hierarchical_summarize(text) returns; both summarizer calls are inside
\* a try (lines 89-96, 99-113)
HSummarize(chunks, ok, finalOk) ==
  /\ proc.pc = "idle"
  /\ LET r == summarize_windows(chunks, ok, finalOk)
     IN proc' = [pc |-> "summarized", chunks |-> chunks, ok |-> ok,
                 finalOk |-> finalOk, raised |-> FALSE,
                 summaries |-> r.summaries, final_summary |-> r.final_summary]
  /\ UNCHANGED <<ingestVars, query, retry, bulk>>

SummaryNext ==
  \E chunks \in WindowLists, finalOk \in BOOLEAN :
     \E ok \in [1..Len(chunks) -> BOOLEAN] : HSummarize(chunks, ok, finalOk)

SummarySpec == ProcInit /\ [][SummaryNext]_vars

\* --------------------------------------- the store adapters alone

\* limit of the scroll in get_all_doc_names (1000 in the code), scaled to
\* the collections of the model
SCROLL_LIMIT == 3

\* a collection after completed ingestions: for each file nothing, or the
\* points of one ingestion of it
StoreInit ==
  /\ proc = IdleProc
  /\ query = IdleQuery
  /\ retry = IdleRetry
  /\ bulk = IdleBulk
  /\ checksum = [f \in Files |-> NoDigest]
  /\ status = [f \in Files |-> "none"]
  /\ redisUp = TRUE
  /\ runs = [n \in Run |-> IdleRun]
  /\ faults = 0
  /\ \E c1, c2 \in Contents \cup {"none"} :
        store = (IF c1 = "none" THEN {} ELSE Ingested(1, "f1", c1))
                \cup (IF c2 = "none" THEN {} ELSE Ingested(2, "f2", c2))

\* QdrantVectorDB.get_all_doc_names (lines 153-165) on the page the one
\* scroll call returned; an exception gives []
get_all_doc_names(scrollOk, scroll) ==
  IF scrollOk
  THEN SetToSeq({point.doc_name : point \in scroll})
  ELSE <<>>

\* IngestService.list_all_documents (lines 274-282), with the effect of
\* the awaited adapter call; the scroll returns at most `limit` points, in
\* the order of their uuid4 ids
ListAllDocuments ==
  /\ proc.pc = "idle"
  /\ \E scrollOk \in BOOLEAN, scroll \in SUBSET store :
        /\ Cardinality(scroll) = Min(SCROLL_LIMIT, Cardinality(store))
        /\ proc' = [pc |-> "listed", scrollOk |-> scrollOk, scroll |-> scroll,
                    response |-> [status |-> "ok",
                                  documents |-> get_all_doc_names(scrollOk, scroll)]]
  /\ UNCHANGED <<ingestVars, query, retry, bulk>>

ListSpec == StoreInit /\ [][ListAllDocuments]_vars

\* ChromaDBClient.query (lines 56-67): the result of collection.query is
\* returned as it is; chroma reports ids, documents, metadatas and, at
\* best, cosine distances, nearest first, and no summaries
ChromaQuery(search_result) ==
  [ids |-> [k \in 1..Len(search_result) |-> search_result[k].payload.id],
   documents |-> [k \in 1..Len(search_result) |-> search_result[k].payload.document],
   metadatas |-> [k \in 1..Len(search_result) |->
                    [doc_name |-> search_result[k].payload.doc_name,
                     page |-> search_result[k].payload.page,
                     paragraph |-> search_result[k].payload.paragraph,
                     summary |-> search_result[k].payload.summary]],
   distances |-> [k \in 1..Len(search_result) |-> One - search_result[k].score]]

\* the same query on the same records through both adapters; sc is the
\* cosine similarity of each record to the query vector
AdapterQuery ==
  /\ proc.pc = "idle"
  /\ \E scrollOk \in BOOLEAN, sc \in [store -> HitScores] :
        LET search_result == search(sc, TOP_K)
        IN proc' = [pc |-> "queried", search_result |-> search_result,
                    qdrant |-> QdrantQuery(search_result, scrollOk),
                    chroma |-> ChromaQuery(search_result)]
  /\ UNCHANGED <<ingestVars, query, retry, bulk>>

AdapterSpec == StoreInit /\ [][AdapterQuery]_vars

\* ------------------------- concurrent requests for one filename

\* ingest requests for f1 only, as many in flight as the workers allow
RaceNext ==
  \/ \E n \in Run, c \in Contents : Start(n, "f1", c)
  \/ \E n \in Run : Check(n)
  \/ \E n \in Run : Skip(n)
  \/ \E n \in Run : Batch(n)
  \/ \E n \in Run : Summarize(n)
  \/ \E n \in Run : Save(n)
  \/ \E n \in Run : Complete(n)
  \/ \E n \in Run : Fail(n)
  \/ RedisToggle

RaceSpec == Init /\ [][RaceNext]_vars

\* ------------------------------------------------ derived views

\* the points run n has written
RunRecords(n) == {p \in store : p.id[1] = n}

\* the runs whose points for filename f are in the store
Generations(f) == {p.id[1] : p \in {q \in store : q.doc_name = f}}

Started(n) == runs[n].pc # "idle"

\* run n is the next run for its filename after run m: m had ended when n
\* began and no other run for that filename overlaps either of them
InARow(m, n) ==
  /\ m # n
  /\ runs[m].pc = "done"
  /\ Started(n)
  /\ runs[m].filename = runs[n].filename
  /\ m \in runs[n].pred
  /\ \A k \in Run \ {m, n} :
        (Started(k) /\ runs[k].filename = runs[n].filename)
           => (k \in runs[m].pred \/ n \in runs[k].pred)

\* no run for the filename of run n began after run n did
LatestRun(n) ==
  \A k \in Run \ {n} :
     (Started(k) /\ runs[k].filename = runs[n].filename) => k \in runs[n].pred

\* run n has stored every chunk of its document
AllChunksStored(n) ==
  \A k \in 1..Len(ChunksOf(runs[n].filename, runs[n].content).chunks) :
     \E p \in RunRecords(n) : p.id[2] = k /\ ~p.summary

\* ------------------------------------------------------------- claims

\* C1: ingesting (f, c) to completion twice in a row leaves exactly one
\* generation of records of f: the second run is skipped and writes nothing.
\* Stated for behaviours in which no collaborator has failed, where both
\* runs end normally; checked from a collection that already holds an
\* earlier ingestion.
C1_Idempotence ==
  \A m, n \in Run :
     (/\ faults = 0
      /\ InARow(m, n)
      /\ LatestRun(n)
      /\ runs[n].pc = "done"
      /\ runs[m].content = runs[n].content
      /\ runs[m].outcome = "completed"
      /\ runs[n].outcome # "crashed")
     => /\ runs[n].outcome = "skipped"
        /\ RunRecords(n) = {}
        /\ Cardinality(Generations(runs[n].filename)) = 1

\* C2: once the embedding of a batch has failed, the run goes straight to
\* failed and stores no later batch.
C2_BatchFailureFails ==
  \A n \in Run :
     runs[n].failedAt >= 0
     => /\ runs[n].pc \in {"fail", "done"}
        /\ runs[n].pc = "done" => runs[n].outcome \in {"failed", "crashed"}
        /\ \A p \in RunRecords(n) : ~p.summary => p.id[2] <= runs[n].failedAt

\* C3: the digest is saved and the status set to completed only by a run
\* that embedded and stored every chunk of the document.
C3_NoPartialDocumentRecorded ==
  \A n \in Run :
     (runs[n].pc = "complete" \/ runs[n].outcome = "completed")
     => AllChunksStored(n)

\* C4: after a run for (f, c) and a later run for (f, c') with c' # c have
\* both completed, no point written by the earlier run is left in the store.
C4_OldRecordsSuperseded ==
  \A m, n \in Run :
     (/\ m # n
      /\ runs[m].outcome = "completed"
      /\ runs[n].outcome = "completed"
      /\ runs[m].filename = runs[n].filename
      /\ runs[m].content # runs[n].content
      /\ m \in runs[n].pred)
     => RunRecords(m) = {}

\* the step of run n that evaluates the digest check
CheckStep(n) == runs[n].pc = "check" /\ runs'[n].pc # "check"

C6_NoCrashWhenStoreDown ==
  \A n \in Run : runs[n].pc = "done" => runs[n].outcome # "crashed"

\* C7: an embedding call whose every attempt fails is attempted exactly
\* RETRIES times, and then raises instead of returning an empty result.
C7_RetryExhaustsThenFails ==
  (/\ retry.pc = "done"
   /\ retry.posts > 0
   /\ retry.failed = retry.posts)
  => /\ retry.posts = RETRIES
     /\ retry.raised

\* C8: the store holds at most one summary point per doc_name.
C8_OneSummaryPerDocument ==
  \A f \in Files :
     Cardinality({p \in store : p.summary /\ p.doc_name = f}) <= 1

\* the similarities of the matches the vector store returned
Similarities(results) ==
  {One - results.distances[k] : k \in 1..Len(results.distances)}

\* C9: every entry of ranked_matches of every response has similarity at or
\* above the threshold.
C9_ThresholdEnforced ==
  query.pc = "done"
  => \A k \in 1..Len(query.response.ranked_matches) :
        query.response.ranked_matches[k].similarity >= SIMILARITY_THRESHOLD

\* C9 witness: the store returned a match below the threshold, and the
\* response ranks two matches in an order the rerank step chose.
C9_Witness ==
  /\ query.pc = "done"
  /\ \E s \in Similarities(query.results) : s < SIMILARITY_THRESHOLD
  /\ Len(query.response.ranked_matches) >= 2
  /\ query.response.ranked_matches[1].similarity
       < query.response.ranked_matches[2].similarity

\* C10: when no match the store returned reaches the threshold, the response
\* is the canned no-context answer (score 0, empty context, sources and
\* ranked_matches) and answer generation was not invoked.
C10_NoContextShortCircuit ==
  (/\ query.pc = "done"
   /\ query.searched
   /\ \A s \in Similarities(query.results) : s < SIMILARITY_THRESHOLD)
  => /\ query.response = NoContextResponse(query.question)
     /\ query.response.answer = "No relevant information found."
     /\ query.response.score = 0
     /\ query.response.context = <<>>
     /\ query.response.sources = <<>>
     /\ query.response.ranked_matches = <<>>
     /\ query.qaCalls = 0

\* C10 witness: the store returned matches, all below the threshold, and the
\* query ended.
C10_Witness ==
  /\ query.pc = "done"
  /\ query.searched
  /\ Len(query.results.distances) > 0
  /\ \A s \in Similarities(query.results) : s < SIMILARITY_THRESHOLD

\* C11: a query_docs call in which the embedding of the question, the vector
\* query, the reranking or the answer generation has failed ends by returning
\* the error response, whose score is 0; it never ends by an exception.
C11_FailureGivesErrorResponse ==
  /\ query.pc \in {"idle", "embed", "search", "filter", "rerank", "answer", "done"}
  /\ query.failed # "none" =>
        /\ query.pc = "done"
        /\ query.response = ErrorResponse(query.question)
        /\ query.response.score = 0

\* C11 witness: the answer generation, the last stage, has failed on a
\* context built from matches
C11_Witness ==
  /\ query.pc = "done"
  /\ query.failed = "qa"
  /\ query.all_docs # <<>>
  /\ query.response.score = 0

\* C12: every response of query_docs carries the eight fields question,
\* answer, score, context, summary, sources, ranked_matches and rag_metrics.
C12_AllFieldsPresent ==
  query.pc = "done" => query.response.keys = ResponseKeys \cup {"rag_metrics"}

\* C13: the word count of the context handed to answer generation, summary
\* plus included chunks, is at most MAX_QA_TOKENS.
C13_ContextWithinBudget ==
  query.qaCalls > 0 => query.context.token_count <= MAX_QA_TOKENS

\* C14: no entry of ranked_matches and no source of a returned context chunk
\* is a summary record.
C14_NoSummaryInRanking ==
  query.pc = "done" =>
     /\ \A k \in 1..Len(query.response.ranked_matches) :
           ~query.response.ranked_matches[k].metadata.summary
     /\ \A k \in 1..Len(query.response.sources) :
           ~query.response.sources[k].summary

\* the files whose ingest call is in progress: first attempt, retries and
\* backoff sleeps
InProgress == {p \in AllPaths : bulk.tasks[p].pc \in {"posting", "sleeping"}}

\* the command has returned to main
Returned == bulk.pc \in {"returned", "exited"}

\* C15: run_ingestion dispatches exactly the scanned files that match the
\* patterns and whose name is not a key of the loaded success ledger.
C15_DispatchesPending ==
  [][(bulk.pc = "init" /\ bulk.mode = "run" /\ bulk'.pc # "init")
     => \A p \in AllPaths :
           (bulk'.tasks[p].pc # "none")
           <=> (/\ p \in bulk.dir
                /\ matches_patterns(p)
                /\ p[2] \notin keys(bulk.success_map))]_vars

\* C16: at every instant the number of files whose ingest call is in
\* progress is at most the configured concurrency.
C16_BoundedConcurrency == Cardinality(InProgress) <= BulkConcurrency

\* C16 witness: every slot is taken by a call in its backoff sleep while
\* another file waits for a slot
C16_Witness ==
  /\ Cardinality(InProgress) = BulkConcurrency
  /\ \E p \in InProgress : bulk.tasks[p].pc = "sleeping"
  /\ \E p \in AllPaths : bulk.tasks[p].pc = "waiting"

\* C17: when a run without shutdown signal returns, every matching file of
\* the directory is a key of the success ledger or is in the failure ledger
\* with the error of its last attempt.
C17_EveryPendingRecorded ==
  (Returned /\ bulk.mode = "run" /\ ~bulk.shutdown)
  => \A p \in bulk.dir :
        matches_patterns(p)
        => \/ p[2] \in keys(bulk.success_map)
           \/ bulk.failure_map[p[2]] \in {ErrorOf(BULK_RETRIES), EncodeError}

\* C18: in the ledgers written at the end of a run, the name of a file
\* whose ingest call succeeded is a key of the success ledger and not a key
\* of the failure ledger.
C18_SuccessClearsFailure ==
  (/\ Returned
   /\ bulk.success_json = bulk.success_map
   /\ bulk.failure_json = bulk.failure_map)
  => \A p \in Dispatched :
        bulk.tasks[p].result = "success"
        => /\ p[2] \in keys(bulk.success_json)
           /\ p[2] \notin keys(bulk.failure_json)

\* C19: retry_failures dispatches exactly the file names that are keys of
\* the failure ledger at its start.
C19_RetryDispatchesFailures ==
  [][(bulk.pc = "init" /\ bulk.mode = "retry" /\ bulk'.pc # "init")
     => {p[2] : p \in {q \in AllPaths : bulk'.tasks[q].pc # "none"}}
          = keys(bulk.failure_map)]_vars

\* C20: once the shutdown flag is set, no file that has not started its
\* ingest call starts one, and no call in progress is abandoned.
C20_NoStartAfterShutdown ==
  [][bulk.shutdown
     => \A p \in AllPaths :
           /\ bulk.tasks[p].pc \in {"new", "waiting"}
              => bulk'.tasks[p].pc # "posting"
           /\ bulk.tasks[p].pc \in {"posting", "sleeping"}
              => bulk'.tasks[p].result # "shutdown"]_vars

C23_DispatchIndependentOfProgressStore ==
  [][(bulk.pc = "init" /\ bulk'.pc # "init" /\ ~redisUp)
     => bulk'.tasks =
          IF bulk.mode = "run"
          THEN TasksFor({p \in bulk.dir : /\ matches_patterns(p)
                                         /\ p[2] \notin keys(bulk.success_map)})
          ELSE TasksFor({p \in bulk.dir : /\ p[1] = ""
                                         /\ p[2] \in keys(bulk.failure_map)})]_vars

\* the first unreadable page of a document, one past the last page when
\* every page is readable
FirstUnreadable(doc) ==
  IF \E k \in 1..Len(doc.pages) : ~doc.pages[k].ok
  THEN CHOOSE k \in 1..Len(doc.pages) :
         /\ ~doc.pages[k].ok
         /\ \A j \in 1..(k - 1) : doc.pages[j].ok
  ELSE Len(doc.pages) + 1

\* the paragraphs with text on the first k pages
RECURSIVE ParagraphCount(_, _)
ParagraphCount(doc, k) ==
  IF k = 0 THEN 0
  ELSE ParagraphCount(doc, k - 1)
       + Cardinality({j \in 1..Len(doc.pages[k].paragraphs) :
                        doc.pages[k].paragraphs[j] # Blank})

\* C30 (as claimed): extract_text_and_metadata returns, and when decoding
\* or parsing failed it returns zero sections.
C30_FailureGivesZeroSections ==
  proc.pc # "idle"
  => /\ ~proc.raised
     /\ proc.failure # "none" => Len(proc.pages) = 0

\* C30 (amended): extract_text_and_metadata returns; invalid base64, a pdf
\* that does not open and markup that does not parse give zero sections; a
\* pdf with an unreadable page gives exactly the sections of the pages
\* before the first unreadable one.
C30_FailureKeepsEarlierSections ==
  proc.pc # "idle"
  => /\ ~proc.raised
     /\ proc.failure \in {"outer", "markup"} => Len(proc.pages) = 0
     /\ (proc.failure = "pdf" /\ ~proc.doc.parses) => Len(proc.pages) = 0
     /\ (proc.failure = "pdf" /\ proc.doc.parses)
        => LET last == FirstUnreadable(proc.doc) - 1
           IN /\ Len(proc.pages) = ParagraphCount(proc.doc, last)
              /\ \A s \in 1..Len(proc.pages) :
                    /\ proc.pages[s].page \in 1..last
                    /\ proc.pages[s].text # Blank
                    /\ \E j \in 1..Len(proc.doc.pages[proc.pages[s].page].paragraphs) :
                          proc.doc.pages[proc.pages[s].page].paragraphs[j]
                            = proc.pages[s].text

\* C30 witness: a pdf whose second page is unreadable has been extracted and
\* the section of its first page was returned
C30_Witness ==
  /\ proc.pc = "extracted"
  /\ proc.failure = "pdf"
  /\ proc.doc.parses
  /\ FirstUnreadable(proc.doc) = 2
  /\ Len(proc.pages) = 1
  /\ proc.pages[1].page = 1
  /\ ~proc.raised

\* the sections chunk_text_with_metadata gets through: all of them, or
\* those before the first one its splitter raises on
ChunkedSections(pages) ==
  IF \E s \in 1..Len(pages) : split_raises(pages[s].text)
  THEN (CHOOSE s \in 1..Len(pages) :
          /\ split_raises(pages[s].text)
          /\ \A t \in 1..(s - 1) : ~split_raises(pages[t].text)) - 1
  ELSE Len(pages)

\* the pieces of the first s sections
RECURSIVE PieceCount(_, _)
PieceCount(pages, s) ==
  IF s = 0 THEN 0 ELSE PieceCount(pages, s - 1) + Len(pages[s].text)

C22_SuccessLedgerOnlyAfterSuccess ==
  \A n \in Run :
     runs[n].outcome = "failed"
     => runs[n].filename \notin keys(bulk.success_map)

\* C25: a run whose extraction yielded zero sections has added no record
\* of any kind to the vector store and, when no collaborator fails, raises
\* no exception and ends with a recorded status.
C25_ZeroSectionsNoRecord ==
  \A n \in Run :
     (Started(n) /\ Len(extract_text_and_metadata(runs[n].filename,
                                                  runs[n].content)) = 0)
     => /\ RunRecords(n) = {}
        /\ faults = 0
           => /\ runs[n].pc # "fail"
              /\ runs[n].pc = "done" => status[runs[n].filename] # "none"

\* the splitter raises on a section of the run's document
ChunkingRaises(n) ==
  LET pages == extract_text_and_metadata(runs[n].filename, runs[n].content)
  IN \E s \in 1..Len(pages) : split_raises(pages[s].text)

\* C27: a run whose chunking raised stores no chunk, saves no digest and
\* does not end completed.
C27_ChunkingErrorFailsRun ==
  \A n \in Run :
     (Started(n) /\ ChunkingRaises(n))
     => /\ RunRecords(n) = {}
        /\ runs[n].pc \notin {"save", "complete"}
        /\ runs[n].outcome # "completed"

\* the transitions of the status graph, with "started" as its first state
\* and a new run starting over from any status
StatusGraph ==
  {<<"started", "skipped">>, <<"started", "extracting">>,
   <<"extracting", "chunking">>, <<"chunking", "embedding">>,
   <<"embedding", "storing">>, <<"storing", "summarizing">>,
   <<"summarizing", "completed">>}
  \cup {<<s, "failed">> : s \in {"started", "extracting", "chunking",
                                "embedding", "storing", "summarizing"}}
  \cup {<<s, "started">> : s \in {"none", "skipped", "completed", "failed"}}

C26_SummaryFailureNotFatal ==
  [][\A n \in Run :
       (/\ runs[n].pc = "batch"
        /\ runs[n].i >= Len(ChunksOf(runs[n].filename, runs[n].content).chunks))
       => runs'[n].pc # "fail"]_vars

\* C35: a task makes at most 5 attempts; a new attempt starts only after
\* the backoff sleep of a failed one, so none follows a success; a task
\* that ends failed after attempting has made exactly 5 attempts and its
\* file is written to the failure ledger with the error of the last one.
C35_AtMostFiveAttempts ==
  [][(bulk.pc = "gather" /\ bulk'.pc = "gather")
     => \A p \in AllPaths :
          LET t == bulk.tasks[p]
              u == bulk'.tasks[p]
          IN /\ u.attempt <= BULK_RETRIES
             /\ t.pc = "done" => u = t
             /\ u.attempt # t.attempt
                => /\ u.attempt = t.attempt + 1
                   /\ t.attempt = 0 \/ t.pc = "sleeping"
             /\ (t.pc # "done" /\ u.result = "failed" /\ u.attempt > 0)
                => /\ u.attempt = BULK_RETRIES
                   /\ bulk'.failure_map[p[2]] = ErrorOf(BULK_RETRIES)]_vars

\* C35 witness: one file succeeded at its second attempt and another was
\* given up after its fifth
C35_Witness ==
  /\ bulk.pc = "gather"
  /\ \E p, q \in AllPaths :
        /\ bulk.tasks[p].result = "success"
        /\ bulk.tasks[p].attempt = 2
        /\ bulk.tasks[q].result = "failed"
        /\ bulk.tasks[q].attempt = BULK_RETRIES
        /\ bulk.failure_map[q[2]] = ErrorOf(BULK_RETRIES)

\* C38: when a run whose loaded ledgers shared no file name writes the
\* ledgers, no file name is a key of both.
C38_LedgersDisjoint ==
  [][(/\ bulk.pc = "gather"
      /\ bulk'.pc = "returned"
      /\ keys(bulk.success_json) \cap keys(bulk.failure_json) = {})
     => keys(bulk.success_map) \cap keys(bulk.failure_map) = {}]_vars

\* C39: when a retry run writes the ledgers, every file name of the failure
\* ledger it loaded is a key of the success ledger or of the failure
\* ledger.
C39_RetryKeepsFailureRecords ==
  [][(bulk.mode = "retry" /\ bulk.pc = "gather" /\ bulk'.pc = "returned")
     => \A f \in keys(bulk.failure_json) :
           f \in keys(bulk.success_map) \cup keys(bulk.failure_map)]_vars

\* C40: once the command has returned, main can go on to its exit; it does
\* not wait for a shutdown signal.
C40_MainExitsWithoutSignal ==
  bulk.pc = "returned" => ENABLED MainExit

\* C31: hierarchical_summarize returns; a window whose summarization
\* failed contributes the empty string; when the final pass fails the
\* result is the joined window summaries, and it is not empty.
C31_DegradedSummaryNonEmpty ==
  proc.pc = "summarized"
  => /\ ~proc.raised
     /\ \A i \in 1..Len(proc.chunks) : ~proc.ok[i] => proc.summaries[i] = <<>>
     /\ ~proc.finalOk
        => /\ proc.final_summary = join(proc.summaries)
           /\ proc.final_summary # <<>>

\* C32: for the same records and query vector both adapters return the
\* same keys and the same values per match, and under `distances` a cosine
\* distance d: 1 - d is the similarity of the match, and the matches are in
\* descending order of it.
C32_AdaptersAgree ==
  proc.pc = "queried"
  => /\ DOMAIN proc.qdrant = DOMAIN proc.chroma
     /\ proc.qdrant.documents = proc.chroma.documents
     /\ proc.qdrant.metadatas = proc.chroma.metadatas
     /\ proc.qdrant.distances = proc.chroma.distances
     /\ \A k \in 1..Len(proc.search_result) :
           /\ One - proc.qdrant.distances[k] = proc.search_result[k].score
           /\ \A j \in 1..k :
                 One - proc.qdrant.distances[j] >= One - proc.qdrant.distances[k]

\* C33: when the store answers, list_all_documents returns exactly the
\* distinct doc_name values of the records in the store.
C33_ListsEveryDocument ==
  (proc.pc = "listed" /\ proc.scrollOk)
  => {proc.response.documents[k] : k \in 1..Len(proc.response.documents)}
       = {point.doc_name : point \in store}

\* C34: nothing holds a run back for another run of the same filename: a
\* run at its digest check passes it whenever the digest of its content is
\* not the one saved, and a run with chunks left can store its next batch,
\* whatever the other runs are doing.
C34_NoMutualExclusion ==
  \A n \in Run :
     /\ (/\ runs[n].pc = "check"
         /\ ~document_exists_and_handle_update(runs[n].filename, runs[n].content))
        => ENABLED (Check(n) /\ runs'[n].pc = "batch")
     /\ (/\ runs[n].pc = "batch"
         /\ runs[n].i < Len(ChunksOf(runs[n].filename, runs[n].content).chunks))
        => ENABLED (Batch(n) /\ store' # store)

\* C34 witness: two runs for the same filename and content overlapped, both
\* passed the digest check, and the store holds a full set of chunk records
\* of each
C34_Witness ==
  \E m, n \in Run :
     /\ m # n
     /\ runs[m].filename = runs[n].filename
     /\ runs[m].content = runs[n].content
     /\ runs[m].outcome = "completed" /\ runs[n].outcome = "completed"
     /\ ~runs[m].exists /\ ~runs[n].exists
     /\ m \notin runs[n].pred /\ n \notin runs[m].pred
     /\ AllChunksStored(m) /\ AllChunksStored(n)

\* the record ingest_document stores for chunk k of run n
ChunkRecord(n, k) ==
  LET cm == ChunksOf(runs[n].filename, runs[n].content)
  IN [id |-> <<n, k>>, doc_name |-> cm.metadata[k].doc_name,
      page |-> cm.metadata[k].page, paragraph |-> cm.metadata[k].paragraph,
      summary |-> FALSE, document |-> cm.chunks[k]]

\* C36: each iteration of the batch loop takes the next BATCH_SIZE chunks
\* (fewer at the end), so every chunk is in exactly one batch, in order, and
\* what it stores is, for each chunk of the batch, the text of that chunk
\* with the metadata of that chunk.
C36_ConsecutiveBatches ==
  [][\A n \in Run :
       (/\ runs[n].pc = "batch"
        /\ runs[n].i < Len(ChunksOf(runs[n].filename, runs[n].content).chunks)
        /\ runs'[n] # runs[n])
       => LET len == Len(ChunksOf(runs[n].filename, runs[n].content).chunks)
              last == Min(runs[n].i + BATCH_SIZE, len)
              batch == (runs[n].i + 1)..last
              added == store' \ store
          IN /\ runs'[n].pc = "batch" => runs'[n].i = runs[n].i + BATCH_SIZE
             /\ Cardinality(batch) <= BATCH_SIZE
             /\ added = {} \/ added = {ChunkRecord(n, k) : k \in batch}]_vars

\* C36 witness: a run has stored a document of more chunks than one batch
\* holds, each chunk with its own text and metadata
C36_Witness ==
  \E n \in Run :
     /\ runs[n].outcome = "completed"
     /\ Len(ChunksOf(runs[n].filename, runs[n].content).chunks) > BATCH_SIZE
     /\ \A k \in 1..Len(ChunksOf(runs[n].filename, runs[n].content).chunks) :
           ChunkRecord(n, k) \in store

\* C37: a run that has written started ends with a terminal status
\* written: skipped, completed or failed.
C37_StartedRunEndsWithTerminalStatus ==
  [][\A n \in Run :
       (runs[n].pc \notin {"idle", "done"} /\ runs'[n].pc = "done")
       => /\ runs'[n].outcome \in {"skipped", "completed", "failed"}
          /\ status'[runs[n].filename] = runs'[n].outcome]_vars

====
